---- MODULE Spec2Model ----
(***************************************************************************)
(* Strategy worker of the crawl frontier (frontera/worker/strategy.py):    *)
(* the batched work tick (collect_batch, fetch, process_batch, release,    *)
(* finished check, stats), the StatesContext scratch area, the three       *)
(* LoopingCall tasks on the single reactor timeline, and the shutdown      *)
(* path (stop_tasks, _perform_shutdown, _stop_reactor).                    *)
(***************************************************************************)
EXTENDS Integers, Sequences, FiniteSets, TLC

(***************************************************************************)
(* Bounds of the model.                                                    *)
(***************************************************************************)
\* SPIDER_LOG_CONSUMER_BATCH_SIZE: most messages one get_messages() yields.
MaxBatch == 2
\* Messages the spider log holds over the whole run.
MaxPulled == 2
\* Shutdown signals delivered over the whole run.
MaxSignals == 2
\* Calls made on the UpdateScoreStream over the whole run.
MaxScoreCalls == 3

(***************************************************************************)
(* Data: requests, decoded events, raw messages.                           *)
(***************************************************************************)
\* self.job_id = 0
job_id == 0
\* a jid of an older run
StaleJid == job_id + 1
\* stands for a meta without the b'jid' key
NoJid == job_id - 1
\* meta has no b'fingerprint' key: meta[b'fingerprint'] raises KeyError
NoFP == "nofp"

Req(fp, jid) == [fp |-> fp, jid |-> jid]
NoReq == Req(NoFP, NoJid)

\* A decoded event: the tag msg[0], the single request it carries (response
\* of page_crawled, request of links_extracted / request_error) and the
\* sequence it carries (seeds of add_seeds, links of links_extracted).
Msg(type, req, reqs) == [type |-> type, req |-> req, reqs |-> reqs]

\* What the consumer can yield.  "malformed" stands for bytes on which
\* decoder.decode raises KeyError or TypeError.
Messages ==
    { Msg("malformed", NoReq, <<>>),
      Msg("add_seeds", NoReq, <<Req("aa", StaleJid), Req("cc", NoJid)>>),
      Msg("page_crawled", Req("aa", job_id), <<>>),
      Msg("page_crawled", Req("aa", StaleJid), <<>>),
      Msg("links_extracted", Req("aa", job_id), <<Req("cc", NoJid)>>),
      Msg("links_extracted", Req(NoFP, job_id), <<Req("cc", NoJid)>>),
      Msg("links_extracted", Req(NoFP, StaleJid), <<Req("cc", NoJid)>>),
      Msg("request_error", Req("cc", job_id), <<>>),
      Msg("request_error", Req("cc", NoJid), <<>>),
      Msg("offset", NoReq, <<>>),
      Msg("unknown", NoReq, <<>>) }

\* The messages used where the subject is the task scheduler and the
\* shutdown path rather than the content of a batch.
LifecycleMessages ==
    { Msg("page_crawled", Req("aa", StaleJid), <<>>) }

\* All pulls of at most n messages drawn from S.
RECURSIVE Pulls(_, _)
Pulls(S, n) ==
    IF n = 0 THEN { <<>> }
    ELSE LET shorter == Pulls(S, n - 1)
         IN  shorter \cup { Append(p, m) : p \in { q \in shorter : Len(q) = n - 1 }, m \in S }

SeqToSet(s) == { s[k] : k \in 1..Len(s) }
FpsOf(reqs) == { reqs[k].fp : k \in 1..Len(reqs) } \ { NoFP }

\* Every request an event carries.
RequestsOf(m) ==
    CASE m.type \in {"add_seeds"} -> m.reqs
      [] m.type \in {"page_crawled", "request_error"} -> <<m.req>>
      [] m.type \in {"links_extracted"} -> <<m.req>> \o m.reqs
      [] OTHER -> <<>>

(***************************************************************************)
(* UpdateScoreStream                                                       *)
(***************************************************************************)
\* score=1.0, the default of send(); scores are counted in tenths.
DefaultScore == 10
\* dont_queue=False, the default of send()
DefaultDontQueue == FALSE
\* the key send() passes to the producer
NoKey == "None"

Scores == { DefaultScore - 5, DefaultScore }
ScoreRequests == { Req("aa", job_id), Req("cc", NoJid) }

\* The ways send() is called: the request alone, or with score, dont_queue
\* or both given.
SendArgs ==
    { [request |-> r] : r \in ScoreRequests }
    \cup { [request |-> r, score |-> x] : r \in ScoreRequests, x \in Scores }
    \cup { [request |-> r, dont_queue |-> d] : r \in ScoreRequests, d \in BOOLEAN }
    \cup { [request |-> r, score |-> x, dont_queue |-> d] :
               r \in ScoreRequests, x \in Scores, d \in BOOLEAN }

\* The value a parameter of send() is bound to.
Bound(a, name, default) == IF name \in DOMAIN a THEN a[name] ELSE default

\* schedule=not dont_queue
ScheduleSame(dont_queue) == dont_queue
Schedule(dont_queue) == ~dont_queue

\* The keyword arguments send() passes to encoder.encode_update_score.
EncoderArgs(a) ==
    [request |-> a.request,
     score |-> Bound(a, "score", DefaultScore),
     schedule |-> Schedule(Bound(a, "dont_queue", DefaultDontQueue))]

\* What encoder.encode_update_score returns: the record of its arguments
\* under the tag of the message.
encode_update_score(e) == << "update_score", e.request, e.score, e.schedule >>

\* self._producer.send(None, encoded)
ProducerSend(encoded) == [key |-> NoKey, value |-> encoded]

(***************************************************************************)
(* StatesContext.to_fetch                                                  *)
(***************************************************************************)
\* to_fetch(requests) on an Iterable: the list comprehension reads every
\* fingerprint before update() runs, so one missing fingerprint raises with
\* nothing added.
ToFetchSeq(fps, reqs) ==
    IF \E k \in 1..Len(reqs) : reqs[k].fp = NoFP
    THEN [fps |-> fps, raised |-> TRUE]
    ELSE [fps |-> fps \cup { reqs[k].fp : k \in 1..Len(reqs) }, raised |-> FALSE]

\* to_fetch(request) on a single request.
ToFetchOne(fps, r) ==
    IF r.fp = NoFP
    THEN [fps |-> fps, raised |-> TRUE]
    ELSE [fps |-> fps \cup { r.fp }, raised |-> FALSE]

(***************************************************************************)
(* BaseStrategyWorker.collect_batch                                        *)
(***************************************************************************)
\* The classification of one decoded message: the fingerprints enrolled,
\* whether the try block raised, whether collect_unknown_message ran.
Classify(fps, m) ==
    CASE m.type = "add_seeds" ->
            ToFetchSeq(fps, m.reqs) @@ [unknown |-> FALSE]
      [] m.type = "page_crawled" ->
            ToFetchOne(fps, m.req) @@ [unknown |-> FALSE]
      [] m.type = "links_extracted" ->
            LET a == ToFetchOne(fps, m.req)
            IN  (IF a.raised THEN a ELSE ToFetchSeq(a.fps, m.reqs)) @@ [unknown |-> FALSE]
      [] m.type = "request_error" ->
            ToFetchOne(fps, m.req) @@ [unknown |-> FALSE]
      [] m.type = "offset" ->
            [fps |-> fps, raised |-> FALSE, unknown |-> FALSE]
      [] OTHER ->
            [fps |-> fps, raised |-> FALSE, unknown |-> TRUE]

\* Whether decoder.decode(m) returns (TRUE) or raises KeyError / TypeError.
Decodes(m) == m.type # "malformed"

\* except (KeyError, TypeError): log, continue; finally: consumed += 1.
OnDecodeErrorUncounted(acc) == acc
OnDecodeError(acc) == [acc EXCEPT !.consumed = @ + 1]

\* The loop of collect_batch over the pulled messages, from message k on.
\* acc = [batch, consumed, fps, raised (indices whose classification
\* raised), unknown (indices passed to collect_unknown_message)].
RECURSIVE CollectFrom(_, _, _)
CollectFrom(pull, k, acc) ==
    IF k > Len(pull) THEN acc
    ELSE LET m == pull[k]
         IN  IF ~Decodes(m)
             THEN CollectFrom(pull, k + 1, OnDecodeError(acc))
             ELSE LET c == Classify(acc.fps, m)
                  IN  CollectFrom(pull, k + 1,
                        [batch |-> Append(acc.batch, m),
                         consumed |-> acc.consumed + 1,
                         fps |-> c.fps,
                         raised |-> IF c.raised THEN acc.raised \cup {Len(acc.batch) + 1}
                                    ELSE acc.raised,
                         unknown |-> IF c.unknown THEN acc.unknown \cup {Len(acc.batch) + 1}
                                     ELSE acc.unknown])

collect_batch(pull, fps) ==
    CollectFrom(pull, 1,
        [batch |-> <<>>, consumed |-> 0, fps |-> fps, raised |-> {}, unknown |-> {}])

(***************************************************************************)
(* BaseStrategyWorker.process_batch and the on_* handlers                  *)
(***************************************************************************)
\* One call the worker makes on a collaborator: op is the method, h the
\* caller (or, for op = "strategy", the strategy method), reqs the requests
\* passed, fps the fingerprint set passed, raised whether it raised.
Call(op, h, reqs, fps, raised) ==
    [op |-> op, h |-> h, reqs |-> reqs, fps |-> fps, raised |-> raised]

\* for seed in seeds: seed.meta[b'jid'] = self.job_id
StampNothing(seeds) == seeds
Stamp(seeds) == [k \in 1..Len(seeds) |-> [seeds[k] EXCEPT !.jid = job_id]]

\* b'jid' not in meta or meta[b'jid'] != self.job_id
IsStale(r) == r.jid = NoJid \/ r.jid # job_id

\* Whether process_batch reaches the on_* handler of the event.
Dispatched(m) ==
    \/ m.type = "add_seeds"
    \/ m.type \in {"page_crawled", "links_extracted", "request_error"} /\ ~IsStale(m.req)

\* The requests on_* passes to states.set_states and states.update_cache.
StateArg(m) ==
    CASE m.type = "add_seeds" -> Stamp(m.reqs)
      [] m.type = "links_extracted" -> m.reqs
      [] OTHER -> <<m.req>>

\* The requests on_* passes to the strategy method.
StrategyArgs(m) ==
    CASE m.type = "add_seeds" -> Stamp(m.reqs)
      [] m.type = "links_extracted" -> <<m.req>> \o m.reqs
      [] OTHER -> <<m.req>>

\* The strategy method on_* calls.
StrategyMethod(m) ==
    CASE m.type = "add_seeds" -> "add_seeds"
      [] m.type = "page_crawled" -> "page_crawled"
      [] m.type = "links_extracted" -> "links_extracted"
      [] OTHER -> "page_error"

\* The stats key process_batch increments after the handler returned.
Counter(m) ==
    CASE m.type = "add_seeds" -> "consumed_add_seeds"
      [] m.type = "page_crawled" -> "consumed_page_crawled"
      [] m.type = "links_extracted" -> "consumed_links_extracted"
      [] OTHER -> "consumed_request_error"

\* What the collaborators do during one handler: all return ("ok"); the
\* strategy calls states_context.refresh_and_keep on its requests and
\* returns ("keep"); states.set_states, the strategy method or
\* states.update_cache raises.
Outcomes(m) ==
    IF Dispatched(m)
    THEN {"ok", "keep", "set_raise", "strat_raise", "upd_raise"}
    ELSE {"ok"}

\* StatesContext.refresh_and_keep(rs), called by the strategy: st is
\* [calls, fps, requests, stats]; the result adds raised.
refresh_and_keep(st, rs) ==
    LET f == ToFetchSeq(st.fps, rs)
    IN  IF f.raised
        THEN st @@ [raised |-> TRUE]
        ELSE [calls |-> st.calls \o
                        << Call("fetch", "refresh_and_keep", <<>>, f.fps, FALSE),
                           Call("set_states", "refresh_and_keep", rs, {}, FALSE) >>,
              fps |-> {},
              requests |-> st.requests \o rs,
              stats |-> st.stats,
              raised |-> FALSE]

\* on_add_seeds / on_page_crawled / on_links_extracted / on_request_error
\* and the counter increment that follows in process_batch; an exception
\* leaves the handler at the call that raised and is swallowed.
OnEvent(st, m, o) ==
    LET set == Call("set_states", "on_event", StateArg(m), {}, o = "set_raise")
        st1 == [st EXCEPT !.calls = Append(@, set)]
        kept == IF o = "keep" THEN refresh_and_keep(st1, StateArg(m))
                ELSE st1 @@ [raised |-> FALSE]
        sraised == o = "strat_raise" \/ kept.raised
        strat == Call("strategy", StrategyMethod(m), StrategyArgs(m), {}, sraised)
        st2 == [calls |-> Append(kept.calls, strat), fps |-> kept.fps,
                requests |-> kept.requests, stats |-> kept.stats]
        upd == Call("update_cache", "on_event", StateArg(m), {}, o = "upd_raise")
        st3 == [st2 EXCEPT !.calls = Append(@, upd)]
    IN  IF o = "set_raise" THEN st1
        ELSE IF sraised THEN st2
        ELSE IF o = "upd_raise" THEN st3
        ELSE [st3 EXCEPT !.stats[Counter(m)] = @ + 1]

\* One iteration of the loop of process_batch.
ProcessOne(st, m, o) ==
    IF m.type \in {"add_seeds", "page_crawled", "links_extracted", "request_error"}
    THEN IF Dispatched(m) THEN OnEvent(st, m, o) ELSE st
    ELSE [st EXCEPT !.calls = Append(@, Call("on_unknown_message", m.type, <<>>, {}, FALSE))]

\* except Exception: log, pass -- the for loop of process_batch goes on to
\* the next event whether or not the handler of event k raised (n is the
\* length of the batch).
LoopAfterHalts(k, n, raised) == IF raised THEN n + 1 ELSE k + 1
LoopAfter(k, n, raised) == k + 1

\* Whether the last call appended to cs after the first n of them raised.
LastRaised(cs, n) == Len(cs) > n /\ cs[Len(cs)].raised

(***************************************************************************)
(* The shutdown path                                                       *)
(***************************************************************************)
\* if self.task.running: self.task.stop()
ShouldStopAlways(isRunning) == TRUE
ShouldStopNever(isRunning) == FALSE
ShouldStop(isRunning) == isRunning

\* LoopingCall.stop() of one task behind the guard of stop_tasks; stop() on
\* a LoopingCall that is not running raises (its assertion).
StopOne(r, t) ==
    IF r.raised \/ ~ShouldStop(r.running[t]) THEN r
    ELSE IF r.running[t] THEN [r EXCEPT !.running[t] = FALSE]
    ELSE [r EXCEPT !.raised = TRUE]

\* The three guarded stops of stop_tasks, in the order of the code.
stop_tasks(running) ==
    StopOne(StopOne(StopOne([running |-> running, raised |-> FALSE], "work"), "flush"), "log")

\* The calls of _perform_shutdown, in the order of the code.
ShutdownStepsCloseFirst ==
    << "strategy.close", "flush_states", "manager.stop", "producer.close", "consumer.close" >>
ShutdownSteps ==
    << "flush_states", "strategy.close", "manager.stop", "producer.close", "consumer.close" >>

\* One drain event: what was called, whether it raised, and its position
\* among all drain events of the run.
Event(ev, raised, at) == [ev |-> ev, raised |-> raised, at |-> at]

\* _perform_shutdown when its failAt-th call raises (0: none raises): the
\* calls made, the last of them raising; first is the position of the
\* first of them.
perform_shutdown(failAt, first) ==
    LET n == IF failAt = 0 THEN Len(ShutdownSteps) ELSE failAt
    IN  [k \in 1..n |-> Event(ShutdownSteps[k], k = failAt, first + k - 1)]

(***************************************************************************)
(* State                                                                   *)
(***************************************************************************)
VARIABLES
    pc,            \* position of the work task: "idle" between ticks, else inside work()
    tick,          \* what collect_batch of the current tick did
    batch,         \* the batch collect_batch returned
    i,             \* index of the next event of process_batch
    fingerprints,  \* StatesContext._fingerprints
    requests,      \* StatesContext._requests
    calls,         \* calls made on states and strategy since the tick began
    stats,         \* self.stats
    pulledTotal,   \* messages the consumer has yielded since start
    running,       \* .running of self.task, self._flush_states_task, self._logging_task
    flushDelayed,  \* the deferLater of run_flush_states_task is pending
    threadQueue,   \* call_shutdown calls queued by reactor.callFromThread
    delayed,       \* d.callback calls queued by reactor.callLater(0, ...)
    reactor,       \* "running", "stopping" (stop() called), "exited"
    sigs,          \* shutdown signals delivered
    drains,        \* Deferreds stop_tasks has returned
    events,        \* events[d]: the events of the d-th drain, in order
    hist,          \* what has happened: failures, restarts, handlers run after a drain began
    scoreCalls,    \* the calls made on the UpdateScoreStream, in order
    encoderCalls,  \* the calls of encoder.encode_update_score, in order
    produced       \* the calls of the scoring-log producer's send, in order

vars == << pc, tick, batch, i, fingerprints, requests, calls, stats, pulledTotal,
           running, flushDelayed, threadQueue, delayed, reactor, sigs, drains,
           events, hist, scoreCalls, encoderCalls, produced >>

scoreVars == << scoreCalls, encoderCalls, produced >>
workerVars == << pc, tick, batch, i, fingerprints, requests, calls, stats, pulledTotal,
                 running, flushDelayed, threadQueue, delayed, reactor, sigs, drains,
                 events, hist >>
pipeVars == << tick, batch, i, fingerprints, requests, calls, stats, pulledTotal, scoreVars >>
lifeVars == << running, flushDelayed, threadQueue, delayed, reactor, drains, events >>

InitStats ==
    [consumed_since_start |-> 0, consumed_add_seeds |-> 0, consumed_page_crawled |-> 0,
     consumed_links_extracted |-> 0, consumed_request_error |-> 0, last_consumed |-> 0]

\* tick: the messages pulled, the count collect_batch returned, the batch
\* indices whose classification raised or reached collect_unknown_message,
\* the stats when the tick began, whether work() has returned.
NoTick == [pulled |-> <<>>, consumed |-> 0, raised |-> {}, unknown |-> {},
           before |-> InitStats, done |-> FALSE]

\* __init__ and the part of run() before reactor.run(): the work and the
\* status task are started, the flush task waits for its random delay.
Init ==
    /\ pc = "idle"
    /\ tick = NoTick
    /\ batch = <<>>
    /\ i = 1
    /\ fingerprints = {}
    /\ requests = <<>>
    /\ calls = <<>>
    /\ stats = InitStats
    /\ pulledTotal = 0
    /\ running = [work |-> TRUE, flush |-> FALSE, log |-> TRUE]
    /\ flushDelayed = TRUE
    /\ threadQueue = 0
    /\ delayed = <<>>
    /\ reactor = "running"
    /\ sigs = 0
    /\ drains = 0
    /\ events = <<>>
    /\ hist = [afterDrain |-> {}, finishedSeen |-> FALSE, stopRaised |-> FALSE]
    /\ scoreCalls = <<>>
    /\ encoderCalls = <<>>
    /\ produced = <<>>

\* The reactor runs a pending call only when no handler is executing and
\* its main loop has not ended.
CanDispatch == pc = "idle" /\ reactor # "exited"

Min(a, b) == IF a < b THEN a ELSE b

\* The number of drain events so far.
RECURSIVE EventCount(_)
EventCount(evs) == IF evs = <<>> THEN 0 ELSE Len(Head(evs)) + EventCount(Tail(evs))

\* A handler invoked after a drain began is recorded.
Invoked(h) == IF drains > 0 THEN [hist EXCEPT !.afterDrain = @ \cup {h}] ELSE hist

(***************************************************************************)
(* BaseStrategyWorker.work, one statement group per step.  No other        *)
(* handler runs between the steps of a tick (CanDispatch).                 *)
(***************************************************************************)
\* An exception leaves work(): LoopingCall sets running to False and fires
\* the errback of the deferred start() returned.
Fail ==
    /\ pc' = "failed"
    /\ running' = [running EXCEPT !.work = FALSE]
    /\ UNCHANGED hist

\* The LoopingCall invokes work(): batch, consumed = self.collect_batch().
WorkCollect(S) ==
    /\ \/ pc = "restart"
       \/ CanDispatch /\ running.work
    /\ \E pull \in Pulls(S, Min(MaxBatch, MaxPulled - pulledTotal)) :
         LET c == collect_batch(pull, fingerprints)
         IN  /\ tick' = [pulled |-> pull, consumed |-> c.consumed, raised |-> c.raised,
                         unknown |-> c.unknown, before |-> stats, done |-> FALSE]
             /\ batch' = c.batch
             /\ fingerprints' = c.fps
             /\ pulledTotal' = pulledTotal + Len(pull)
    /\ calls' = <<>>
    /\ i' = 1
    /\ pc' = "fetch"
    /\ hist' = Invoked("work")
    /\ UNCHANGED << requests, stats, sigs >>
    /\ UNCHANGED lifeVars
    /\ UNCHANGED scoreVars

\* self.states_context.fetch(): states.fetch(_fingerprints), then clear().
WorkFetch ==
    /\ pc = "fetch"
    /\ \E raises \in BOOLEAN :
         /\ calls' = Append(calls, Call("fetch", "work", <<>>, fingerprints, raises))
         /\ IF raises
            THEN /\ Fail
                 /\ UNCHANGED fingerprints
            ELSE /\ fingerprints' = {}
                 /\ pc' = "process"
                 /\ UNCHANGED << running, hist >>
    /\ UNCHANGED << tick, batch, i, requests, stats, pulledTotal, sigs >>
    /\ UNCHANGED << flushDelayed, threadQueue, delayed, reactor, drains, events >>
    /\ UNCHANGED scoreVars

\* self.process_batch(batch), one event of the loop.
ProcessEvent ==
    /\ pc = "process"
    /\ i <= Len(batch)
    /\ \E o \in Outcomes(batch[i]) :
         LET st == ProcessOne([calls |-> calls, fps |-> fingerprints,
                               requests |-> requests, stats |-> stats], batch[i], o)
         IN  /\ calls' = st.calls
             /\ fingerprints' = st.fps
             /\ requests' = st.requests
             /\ stats' = st.stats
             /\ i' = LoopAfter(i, Len(batch), LastRaised(st.calls, Len(calls)))
    /\ UNCHANGED << pc, tick, batch, pulledTotal, sigs, hist >>
    /\ UNCHANGED lifeVars
    /\ UNCHANGED scoreVars

\* self.update_score.flush() (a no-op) and self.states_context.release():
\* states.update_cache(_requests), then _requests = [].
WorkRelease ==
    /\ pc = "process"
    /\ i > Len(batch)
    /\ \E raises \in BOOLEAN :
         /\ calls' = Append(calls, Call("update_cache", "release", requests, {}, raises))
         /\ IF raises
            THEN /\ Fail
                 /\ UNCHANGED requests
            ELSE /\ requests' = <<>>
                 /\ pc' = "finished"
                 /\ UNCHANGED << running, hist >>
    /\ UNCHANGED << tick, batch, i, fingerprints, stats, pulledTotal, sigs >>
    /\ UNCHANGED << flushDelayed, threadQueue, delayed, reactor, drains, events >>
    /\ UNCHANGED scoreVars

\* self.stats[...] = ... at the end of work().
StatsAfter(consumed) ==
    [stats EXCEPT !.last_consumed = consumed, !.consumed_since_start = @ + consumed]

\* if self.strategy.finished(): d = self.stop_tasks(); callLater(0, d.callback)
\* and the stats update that ends work().
WorkFinish ==
    /\ pc = "finished"
    /\ \E f \in {"false", "true", "raise"} :
         LET st == stop_tasks(running)
         IN  CASE f = "raise" ->
                    /\ Fail
                    /\ UNCHANGED << tick, stats, delayed, drains, events >>
               [] f = "true" /\ st.raised ->
                    /\ pc' = "failed"
                    /\ running' = [st.running EXCEPT !.work = FALSE]
                    /\ hist' = [hist EXCEPT !.stopRaised = TRUE]
                    /\ UNCHANGED << tick, stats, delayed, drains, events >>
               [] f = "true" /\ ~st.raised ->
                    /\ running' = st.running
                    /\ drains' = drains + 1
                    /\ delayed' = Append(delayed, drains + 1)
                    /\ events' = Append(events,
                                        << Event("stop_tasks", FALSE, EventCount(events) + 1) >>)
                    /\ hist' = [hist EXCEPT !.finishedSeen = TRUE]
                    /\ stats' = StatsAfter(tick.consumed)
                    /\ tick' = [tick EXCEPT !.done = TRUE]
                    /\ pc' = "idle"
               [] OTHER ->
                    /\ stats' = StatsAfter(tick.consumed)
                    /\ tick' = [tick EXCEPT !.done = TRUE]
                    /\ pc' = "idle"
                    /\ UNCHANGED << running, hist, delayed, drains, events >>
    /\ UNCHANGED << batch, i, fingerprints, requests, calls, pulledTotal, sigs >>
    /\ UNCHANGED << flushDelayed, threadQueue, reactor >>
    /\ UNCHANGED scoreVars

\* errback_main: log_failure, then self.task.start(interval=0), which
\* invokes work() at once.
errback_main ==
    /\ pc = "failed"
    /\ running' = [running EXCEPT !.work = TRUE]
    /\ pc' = "restart"
    /\ UNCHANGED pipeVars
    /\ UNCHANGED << flushDelayed, threadQueue, delayed, reactor, sigs, drains, events, hist >>

(***************************************************************************)
(* The status and flush tasks                                              *)
(***************************************************************************)
\* self._logging_task fires log_status; start() was given no errback, so a
\* failure leaves the LoopingCall stopped.
LogStatus ==
    /\ CanDispatch
    /\ running.log
    /\ \E fails \in BOOLEAN :
         running' = [running EXCEPT !.log = ~fails]
    /\ hist' = Invoked("log_status")
    /\ UNCHANGED pipeVars
    /\ UNCHANGED << pc, flushDelayed, threadQueue, delayed, reactor, sigs, drains, events >>

\* .running of the flush task after one invocation of flush_states by its
\* LoopingCall: when it raises, the LoopingCall stops, errback_flush_states
\* logs and run_flush_states_task starts the task again (which invokes
\* flush_states at once, until an invocation returns).
FlushRunningAfter(fails) == TRUE

\* The deferLater of run() fires run_flush_states_task.
FlushStart ==
    /\ CanDispatch
    /\ flushDelayed
    /\ flushDelayed' = FALSE
    /\ \E fails \in BOOLEAN : running' = [running EXCEPT !.flush = FlushRunningAfter(fails)]
    /\ hist' = Invoked("flush_states")
    /\ UNCHANGED pipeVars
    /\ UNCHANGED << pc, threadQueue, delayed, reactor, sigs, drains, events >>

\* self._flush_states_task fires flush_states.
FlushTick ==
    /\ CanDispatch
    /\ running.flush
    /\ \E fails \in BOOLEAN : running' = [running EXCEPT !.flush = FlushRunningAfter(fails)]
    /\ hist' = Invoked("flush_states")
    /\ UNCHANGED pipeVars
    /\ UNCHANGED << pc, flushDelayed, threadQueue, delayed, reactor, sigs, drains, events >>

(***************************************************************************)
(* Shutdown                                                                *)
(***************************************************************************)
\* _handle_shutdown: reactor.callFromThread(call_shutdown).
Signal ==
    /\ sigs < MaxSignals
    /\ reactor # "exited"
    /\ sigs' = sigs + 1
    /\ threadQueue' = threadQueue + 1
    /\ UNCHANGED pipeVars
    /\ UNCHANGED << pc, running, flushDelayed, delayed, reactor, drains, events, hist >>

\* call_shutdown: d = self.stop_tasks(); reactor.callLater(0, d.callback, None).
call_shutdown ==
    /\ pc = "idle"
    /\ reactor = "running"
    /\ threadQueue > 0
    /\ threadQueue' = threadQueue - 1
    /\ LET st == stop_tasks(running)
       IN  /\ running' = st.running
           /\ IF st.raised
              THEN /\ hist' = [hist EXCEPT !.stopRaised = TRUE]
                   /\ UNCHANGED << delayed, drains, events >>
              ELSE /\ drains' = drains + 1
                   /\ delayed' = Append(delayed, drains + 1)
                   /\ events' = Append(events,
                                       << Event("stop_tasks", FALSE, EventCount(events) + 1) >>)
                   /\ UNCHANGED hist
    /\ UNCHANGED pipeVars
    /\ UNCHANGED << pc, flushDelayed, reactor, sigs >>

\* d.callback(None): _perform_shutdown, then _stop_reactor (addBoth, so it
\* runs whether or not _perform_shutdown raised); reactor.stop() on a
\* reactor already stopped raises RuntimeError, which is passed over.
DrainCallback ==
    /\ CanDispatch
    /\ delayed # <<>>
    /\ \E failAt \in 0..Len(ShutdownSteps) :
         LET steps == perform_shutdown(failAt, EventCount(events) + 1)
             stop == Event("reactor.stop", reactor # "running",
                           EventCount(events) + Len(steps) + 1)
         IN  events' = [events EXCEPT ![Head(delayed)] = @ \o steps \o << stop >>]
    /\ delayed' = Tail(delayed)
    /\ reactor' = IF reactor = "running" THEN "stopping" ELSE reactor
    /\ UNCHANGED pipeVars
    /\ UNCHANGED << pc, running, flushDelayed, threadQueue, sigs, drains, hist >>

\* The main loop ends after the iteration in which reactor.stop() ran.
ReactorExit ==
    /\ pc = "idle"
    /\ reactor = "stopping"
    /\ reactor' = "exited"
    /\ UNCHANGED pipeVars
    /\ UNCHANGED << pc, running, flushDelayed, threadQueue, delayed, sigs, drains,
                    events, hist >>

(***************************************************************************)
(* UpdateScoreStream.send and flush, as the strategy calls them            *)
(***************************************************************************)
\* send(request, score=1.0, dont_queue=False): one encode_update_score,
\* then one producer.send with the encoded record.
Send ==
    /\ Len(scoreCalls) < MaxScoreCalls
    /\ \E a \in SendArgs :
         /\ scoreCalls' = Append(scoreCalls, [op |-> "send", args |-> a])
         /\ encoderCalls' = Append(encoderCalls, EncoderArgs(a))
         /\ produced' = Append(produced, ProducerSend(encode_update_score(EncoderArgs(a))))
    /\ UNCHANGED workerVars

\* flush(): pass
Flush ==
    /\ Len(scoreCalls) < MaxScoreCalls
    /\ scoreCalls' = Append(scoreCalls, [op |-> "flush"])
    /\ UNCHANGED << encoderCalls, produced >>
    /\ UNCHANGED workerVars

(***************************************************************************)
(* Specifications                                                          *)
(***************************************************************************)
\* The batch pipeline over every kind of message, with no shutdown signal
\* and before the status and flush timers come due.
Next ==
    \/ WorkCollect(Messages)
    \/ WorkFetch
    \/ ProcessEvent
    \/ WorkRelease
    \/ WorkFinish
    \/ errback_main
    \/ DrainCallback
    \/ ReactorExit

Spec == Init /\ [][Next]_vars

\* The scheduler and the shutdown path: signals, the three tasks and the
\* drain, over batches of LifecycleMessages.
LifecycleNext ==
    \/ WorkCollect(LifecycleMessages)
    \/ WorkFetch
    \/ ProcessEvent
    \/ WorkRelease
    \/ WorkFinish
    \/ errback_main
    \/ LogStatus
    \/ FlushStart
    \/ FlushTick
    \/ Signal
    \/ call_shutdown
    \/ DrainCallback
    \/ ReactorExit

LifecycleSpec == Init /\ [][LifecycleNext]_vars

\* The UpdateScoreStream alone, under every sequence of send and flush
\* calls.
ScoreNext ==
    \/ Send
    \/ Flush

ScoreSpec == Init /\ [][ScoreNext]_vars

(***************************************************************************)
(* Properties of the batch pipeline                                        *)
(***************************************************************************)
\* work() has returned normally and no later tick has begun.
TickDone == pc = "idle" /\ tick.done

\* No work tick is executing: between ticks, or work() has raised and the
\* restarted task has not yet called collect_batch.
BetweenBatches == pc \in {"idle", "failed", "restart"}

\* The fingerprint set work() passed to states.fetch in the current tick.
FetchedByWork ==
    IF Len(calls) > 0 /\ calls[1].op = "fetch" /\ calls[1].h = "work"
    THEN calls[1].fps
    ELSE {}

StrategyCalls == { k \in 1..Len(calls) : calls[k].op = "strategy" }

\* The jid an event carries is absent or differs from the worker's job_id.
JidStale(r) == r.jid = NoJid \/ r.jid # job_id
Filtered == {"page_crawled", "links_extracted", "request_error"}
MethodOf(type) == IF type = "request_error" THEN "page_error" ELSE type
CounterOf(type) ==
    CASE type = "page_crawled" -> "consumed_page_crawled"
      [] type = "links_extracted" -> "consumed_links_extracted"
      [] OTHER -> "consumed_request_error"
NCalls(h) == Cardinality({ k \in StrategyCalls : calls[k].h = h })
NFresh(type) ==
    Cardinality({ k \in 1..Len(batch) : batch[k].type = type /\ ~JidStale(batch[k].req) })
WellFormed(m) == m.type # "malformed"
HasAllFps(m) == \A k \in 1..Len(RequestsOf(m)) : RequestsOf(m)[k].fp # NoFP
ExpectDispatch(m) ==
    m.type = "add_seeds" \/ (m.type \in Filtered /\ ~JidStale(m.req))

\* C1: every fingerprint referenced by an event that process_batch hands to
\* a strategy method was in the fingerprint set that work() passed to
\* states.fetch earlier in the same tick, also when the classification of
\* the event in collect_batch raised.
C1_StateLoad ==
    \A k \in StrategyCalls : FpsOf(calls[k].reqs) \subseteq FetchedByWork

\* C2: once release() of the tick has returned, states.update_cache has
\* been called, after the strategy call, with every request that was passed
\* to a strategy method in the tick (the request of links_extracted and
\* the arguments of methods that raised included).
C2_WriteBack ==
    (pc = "finished" \/ TickDone) =>
        \A k \in StrategyCalls : \A r \in SeqToSet(calls[k].reqs) :
            \E j \in (k + 1)..Len(calls) :
                calls[j].op = "update_cache" /\ r \in SeqToSet(calls[j].reqs)

\* C3: before a strategy method is invoked, a states.fetch covering the
\* fingerprint of each request passed to it and then a states.set_states
\* covering that request have occurred in the same tick, in that order.
C3_LoadedBeforeHandler ==
    \A k \in StrategyCalls : \A r \in SeqToSet(calls[k].reqs) :
        \E a \in 1..k, b \in 1..k :
            /\ a < b /\ b < k
            /\ calls[a].op = "fetch" /\ (r.fp = NoFP \/ r.fp \in calls[a].fps)
            /\ calls[b].op = "set_states" /\ r \in SeqToSet(calls[b].reqs)

\* The part of C4 about the dispatch: a stale event reaches no strategy
\* method and moves no counter, and is counted in consumed_since_start.
StaleNotDispatched ==
    TickDone =>
        \A k \in 1..Len(batch) :
            (batch[k].type \in Filtered /\ JidStale(batch[k].req)) =>
                /\ NCalls(MethodOf(batch[k].type)) <= NFresh(batch[k].type)
                /\ stats[CounterOf(batch[k].type)]
                       <= tick.before[CounterOf(batch[k].type)] + NFresh(batch[k].type)
                /\ stats.consumed_since_start
                       = tick.before.consumed_since_start + Len(tick.pulled)

\* C4: a page_crawled, links_extracted or request_error event whose jid is
\* absent or differs from job_id reaches no strategy method and moves no
\* counter, while its fingerprints are enrolled in the fetch of the tick
\* and the message is counted in consumed_since_start.
C4_JobIdStaleness ==
    /\ StaleNotDispatched
    /\ TickDone =>
          \A k \in 1..Len(batch) :
              (batch[k].type \in Filtered /\ JidStale(batch[k].req)) =>
                  FpsOf(RequestsOf(batch[k])) \subseteq FetchedByWork

C9_EmptyBetweenBatches ==
    BetweenBatches => fingerprints = {} /\ requests = <<>>

\* C11: a states.fetch, states.set_states or states.update_cache call that
\* raised is the last call of its tick and has ended the work task, which
\* errback_main then starts again.
BackendOps == {"fetch", "set_states", "update_cache"}
C11_BackendErrorsPropagate ==
    \A k \in 1..Len(calls) :
        (calls[k].op \in BackendOps /\ calls[k].raised) =>
            /\ k = Len(calls)
            /\ (pc = "failed" \/ (pc = "restart" /\ running.work))

\* The handler entries of the tick: the states.set_states call each on_*
\* handler makes first.
IsHandlerEntry(c) == c.op = "set_states" /\ c.h = "on_event"
HandlerEntries == SelectSeq(calls, IsHandlerEntry)
\* The events process_batch has visited that are due for dispatch.
DueVisited == SelectSeq(SubSeq(batch, 1, i - 1), ExpectDispatch)
EntryArg(m) ==
    CASE m.type = "add_seeds" -> [k \in 1..Len(m.reqs) |-> Req(m.reqs[k].fp, job_id)]
      [] m.type = "links_extracted" -> m.reqs
      [] OTHER -> << m.req >>
LastCallIs(op, h, raised) ==
    /\ calls # <<>>
    /\ calls[Len(calls)].op = op
    /\ calls[Len(calls)].h = h
    /\ calls[Len(calls)].raised = raised
RaisedStrategyCalls == { k \in StrategyCalls : calls[k].raised }

\* C12: when a strategy method raises for one event, process_batch goes on:
\* the handlers of the events visited so far have been entered one per
\* event due for dispatch, in batch order; work() leaves process_batch only
\* with every event visited, then calls release(), and when it returns the
\* stats update has been made.  A tick fails only at fetch, at release or
\* at the finished check.
C12_StrategyExceptionsSwallowed ==
    /\ (pc \in {"process", "finished"} \/ TickDone) =>
          /\ Len(HandlerEntries) = Len(DueVisited)
          /\ \A k \in 1..Len(DueVisited) : HandlerEntries[k].reqs = EntryArg(DueVisited[k])
    /\ (pc = "finished" \/ TickDone) =>
          /\ i = Len(batch) + 1
          /\ LastCallIs("update_cache", "release", FALSE)
    /\ TickDone =>
          /\ stats.last_consumed = tick.consumed
          /\ stats.consumed_since_start = tick.before.consumed_since_start + tick.consumed
    /\ pc = "failed" =>
          \/ LastCallIs("fetch", "work", TRUE)
          \/ i = Len(batch) + 1

\* The strategy method raised for the first of two events due for dispatch,
\* the second was dispatched and counted, and work() has returned.
C12_Witness ==
    /\ TickDone
    /\ Len(batch) = 2
    /\ Len(DueVisited) = 2
    /\ \E k \in RaisedStrategyCalls : \E j \in StrategyCalls :
          /\ k < j
          /\ ~calls[j].raised
          /\ calls[k].reqs = StrategyArgs(batch[1])
          /\ calls[j].reqs = StrategyArgs(batch[2])
    /\ stats.consumed_since_start = tick.before.consumed_since_start + 2

\* process_batch has returned in the current tick.
AfterProcess == pc = "finished" \/ TickDone
IsEntryAt(k) == IsHandlerEntry(calls[k])
\* The positions in calls at which the handlers were entered.
EntryIdx == SelectSeq([k \in 1..Len(calls) |-> k], IsEntryAt)
IsHandlerStep(c) == c.op = "strategy" \/ c.h = "on_event"
\* The calls the k-th handler of the tick made itself, in order (those
\* refresh_and_keep made on behalf of the strategy left out).
HandlerSteps(k) ==
    LET to == IF k < Len(EntryIdx) THEN EntryIdx[k + 1] - 1 ELSE Len(calls)
    IN  SelectSeq(SubSeq(calls, EntryIdx[k], to), IsHandlerStep)
\* The three calls of on_add_seeds on seeds S, all returning.
SeedCalls(S) ==
    << Call("set_states", "on_event", S, {}, FALSE),
       Call("strategy", "add_seeds", S, {}, FALSE),
       Call("update_cache", "on_event", S, {}, FALSE) >>
SeedHandlers == { k \in 1..Len(DueVisited) : DueVisited[k].type = "add_seeds" }
CompleteSeedHandlers ==
    { k \in SeedHandlers : HandlerSteps(k) = SeedCalls(EntryArg(DueVisited[k])) }

OffsetOutcome(fps) == Classify(fps, Msg("offset", NoReq, <<>>))
OffsetNotCollected ==
    /\ \A fps \in SUBSET {"aa", "cc"} :
          OffsetOutcome(fps).fps = fps /\ ~OffsetOutcome(fps).unknown
    /\ \A k \in tick.unknown : batch[k].type \notin {"offset"} \cup Filtered \cup {"add_seeds"}
    /\ Cardinality(StrategyCalls) <= Len(DueVisited)

\* C15: for a message tagged offset no fingerprint is enrolled and neither
\* collect_unknown_message nor on_unknown_message nor a strategy method is
\* invoked; only messages with an unknown tag reach the unknown-message
\* hooks.
C15_OffsetIgnored ==
    /\ OffsetNotCollected
    /\ \A k \in 1..Len(calls) :
          calls[k].op = "on_unknown_message" => calls[k].h \notin {"offset"}

TypeCounters ==
    stats.consumed_add_seeds + stats.consumed_page_crawled
        + stats.consumed_links_extracted + stats.consumed_request_error

\* C19: whenever no work tick is executing, consumed_since_start is the
\* number of messages pulled from the consumer since start and the four
\* per-type counters together do not exceed it, also after ticks that an
\* error in fetch, release or strategy.finished() aborted.
C19_ConsumedAccounting ==
    BetweenBatches =>
        /\ stats.consumed_since_start = pulledTotal
        /\ TypeCounters <= stats.consumed_since_start

\* C20: collect_batch pulls the next batch only when process_batch has
\* visited every event of the batch pulled before, also when the tick that
\* pulled it was aborted and the work task restarted.
C20_NoPulledEventLost ==
    [][(pc # "fetch" /\ pc' = "fetch") => i = Len(batch) + 1]_vars

\* The send() calls among the calls made on the UpdateScoreStream.
IsSend(c) == c.op = "send"
Sends == SelectSeq(scoreCalls, IsSend)
Given(a, name) == name \in DOMAIN a

\* C14: the k-th send(request, score, dont_queue) has made the k-th encoder
\* call, with that request, that score (1.0 when none is given) and
\* schedule = not dont_queue (true when none is given), and the k-th
\* producer.send, with key None and the record that encoder call returned;
\* there are no other encoder or producer calls, so flush() made none.
C14_ScoreEmission ==
    /\ Len(encoderCalls) = Len(Sends)
    /\ Len(produced) = Len(Sends)
    /\ \A k \in 1..Len(Sends) :
          LET a == Sends[k].args
              e == encoderCalls[k]
          IN  /\ e.request = a.request
              /\ e.score = (IF Given(a, "score") THEN a.score ELSE 10)
              /\ e.schedule = (IF Given(a, "dont_queue") THEN a.dont_queue = FALSE ELSE TRUE)
              /\ produced[k].key = "None"
              /\ produced[k].value = << "update_score", e.request, e.score, e.schedule >>

\* A send with score 0.5 and dont_queue true, a flush, and a send with the
\* defaults have been made.
C14_Witness ==
    /\ Len(scoreCalls) = 3
    /\ scoreCalls[1] = [op |-> "send",
                         args |-> [request |-> Req("aa", job_id), score |-> 5, dont_queue |-> TRUE]]
    /\ scoreCalls[2] = [op |-> "flush"]
    /\ scoreCalls[3] = [op |-> "send", args |-> [request |-> Req("cc", NoJid)]]
    /\ Len(produced) = 2
    /\ encoderCalls[1].schedule = FALSE
    /\ encoderCalls[2] = [request |-> Req("cc", NoJid), score |-> 10, schedule |-> TRUE]

(***************************************************************************)
(* Properties of the scheduler and the shutdown path                       *)
(***************************************************************************)
\* The named call of _perform_shutdown has returned normally in some drain.
Performed(ev) ==
    \E d \in 1..Len(events) : \E k \in 1..Len(events[d]) :
        events[d][k].ev = ev /\ ~events[d][k].raised

DrainOrder ==
    << "stop_tasks", "flush_states", "strategy.close", "manager.stop",
       "producer.close", "consumer.close", "reactor.stop" >>
Rank(ev) ==
    CASE ev = "stop_tasks" -> 1
      [] ev = "flush_states" -> 2
      [] ev = "strategy.close" -> 3
      [] ev = "manager.stop" -> 4
      [] ev = "producer.close" -> 5
      [] ev = "consumer.close" -> 6
      [] OTHER -> 7
CloseOrder == << "strategy.close", "manager.stop", "producer.close", "consumer.close" >>

\* The final states one shutdown signal can end in: the work and status
\* tasks are stopped and what is closed is an initial part of the order
\* strategy, manager, producer, consumer.
StoppedState ==
    /\ ~running.work
    /\ ~running.log
    /\ \A k \in 2..Len(CloseOrder) : Performed(CloseOrder[k]) => Performed(CloseOrder[k - 1])

\* C6: however many shutdown signals were delivered, and however their
\* call_shutdown and d.callback calls interleave with the rest, the worker
\* ends in a final state that one signal can end in, and no stop_tasks
\* raised on a task that was already stopped.
C6_IdempotentShutdown ==
    /\ ~hist.stopRaised
    /\ reactor = "exited" => StoppedState

\* Two signals were delivered and both drains ran to the end before the
\* reactor's loop ended.
C6_Witness ==
    /\ reactor = "exited"
    /\ sigs = 2
    /\ drains = 2
    /\ delayed = <<>>
    /\ Len(events[1]) = Len(DrainOrder)
    /\ Len(events[2]) = Len(DrainOrder)
    /\ \A d \in 1..2 : \A k \in 1..Len(events[d]) :
          events[d][k].raised <=> (d = 2 /\ events[d][k].ev = "reactor.stop")

\* C7: the events of each drain, whether strategy.finished() or a signal
\* triggered it, occur in the order stop_tasks, flush_states,
\* strategy.close, manager.stop, producer close, consumer close,
\* reactor.stop (all of them when no call of _perform_shutdown raises), and
\* work is not invoked once a drain has begun.
C7_DrainOrder ==
    /\ Len(events) = drains
    /\ \A d \in 1..drains :
          /\ events[d][1].ev = "stop_tasks"
          /\ \A a \in 1..(Len(events[d]) - 1) :
                /\ Rank(events[d][a].ev) < Rank(events[d][a + 1].ev)
                /\ events[d][a].at < events[d][a + 1].at
          /\ ( /\ Len(events[d]) > 1
               /\ \A a \in 1..Len(events[d]) :
                     events[d][a].ev = "reactor.stop" \/ ~events[d][a].raised )
                => [a \in 1..Len(events[d]) |-> events[d][a].ev] = DrainOrder
    /\ "work" \notin hist.afterDrain

\* A drain triggered by strategy.finished() and a drain triggered by a
\* signal have both run in full.
C7_Witness ==
    /\ hist.finishedSeen
    /\ sigs > 0
    /\ drains = 2
    /\ Len(events[1]) = Len(DrainOrder)
    /\ Len(events[2]) = Len(DrainOrder)

\* C8: once a work tick has found strategy.finished() true, the work task
\* is stopped and work is not invoked again, whatever else fires.
C8_FinishDetection ==
    hist.finishedSeen =>
        /\ ~running.work
        /\ pc = "idle"
        /\ "work" \notin hist.afterDrain

\* A tick found finished() true, the delayed start of the flush task fired
\* afterwards, a shutdown signal was delivered too, and the reactor has
\* since ended with both drains run.
C8_Witness ==
    /\ hist.finishedSeen
    /\ "flush_states" \in hist.afterDrain
    /\ sigs > 0
    /\ reactor = "exited"
    /\ delayed = <<>>

\* C10: whenever the handler of one of the three periodic tasks has
\* failed and no drain has begun, the task is running again.
C10_SelfRestarting ==
    (pc = "idle" /\ drains = 0) =>
        running.work /\ running.log /\ (~flushDelayed => running.flush)

\* Every drain event of the run.
DrainEvents ==
    UNION { { events[d][k] : k \in 1..Len(events[d]) } : d \in 1..Len(events) }
Invocations(ev) == { e \in DrainEvents : e.ev = ev }

\* C16: each of flush_states, strategy.close, manager.stop, producer.close
\* and consumer.close is invoked by the drain at most once in the run,
\* however many drains were triggered, and neither flush_states nor
\* strategy.close is invoked after the consumer has been closed.
C16_DrainStepsOnce ==
    /\ \A k \in 1..Len(ShutdownSteps) : Cardinality(Invocations(ShutdownSteps[k])) <= 1
    /\ \A c \in Invocations("consumer.close") :
          \A e \in Invocations("flush_states") \cup Invocations("strategy.close") :
              ~c.raised => e.at < c.at

\* C17: once stop_tasks has run, none of the three LoopingCalls is running
\* and none of work, log_status and flush_states has been invoked by a
\* timer since; in particular none is running when the reactor has been
\* stopped.
C17_TasksQuietAfterDrain ==
    /\ drains > 0 =>
          /\ ~running.work /\ ~running.flush /\ ~running.log
          /\ hist.afterDrain = {}
    /\ reactor # "running" => ~running.work /\ ~running.flush /\ ~running.log

\* C18: whenever reactor.stop has been called by a drain, strategy.close,
\* manager.stop, the producer's close and the consumer's close have all
\* been performed.
C18_ClosesBeforeStopped ==
    reactor # "running" => \A k \in 1..Len(CloseOrder) : Performed(CloseOrder[k])

====
